---- MODULE Spec2Model ----
(***************************************************************************)
(* CXG Computachess II (src/mame/cxg/computachess2.cpp): the I/O glue of   *)
(* cpchess2_state.  The MCU's R2/R3 port writes build the 8-bit input mux  *)
(* (m_inp_mux), which is also the led column data; a D port write drives   *)
(* the speaker bit and the led row select; a D port read samples the       *)
(* keypad groups and the chessboard files selected by the mux.             *)
(*                                                                         *)
(* The collaborators (display, dac, maincpu, board, ioports) are modelled  *)
(* by the last value this driver handed to them, or by the reading they    *)
(* currently report.                                                       *)
(***************************************************************************)
EXTENDS Integers, FiniteSets, Sequences, TLC

VARIABLES
    m_inp_mux,     \* u8 m_inp_mux
    display_mx,    \* last argument of m_display->write_mx, NoValue before any call
    display_my,    \* last argument of m_display->write_my, NoValue before any call
    dac_level,     \* last argument of m_dac->write, NoValue before any call
    reset_line,    \* last state given to m_maincpu->set_input_line(INPUT_LINE_RESET, .)
    board,         \* m_board->read_file(f) for f in 0..7, as currently reported
    inputs,        \* m_inputs[i]->read() for i in 0..1, as currently reported
    ret,           \* observer: the values returned by the (at most two) latest
                   \* input_r calls made since the last nibble write or change
                   \* of the external readings, oldest first
    saved,         \* the driver's part of the save state: its registered items
    at_save,       \* observer: m_inp_mux and dac_level when the save state was taken
    op             \* observer on the MCU ports (Spec only): the latest call,
                   \* <<handler, N, data>>

vars == <<m_inp_mux, display_mx, display_my, dac_level, reset_line,
          board, inputs, ret, saved, at_save, op>>

----------------------------------------------------------------------------
(* Bounds of the model *)

\* nibble writes take data in 0..MaxData (the parameter is a u8; the MCU's R
\* ports are 4 bits wide, values above 15 exercise the missing mask)
MaxData == 17

\* control writes take the values 0..MaxControl (bits 0..4 in every
\* combination) and the two values of HighControl
MaxControl == 31

\* the diagonal boards used by the read path: files rotated by 0..MaxShift
MaxShift == 1

\* the save-state specification writes the nibbles 15 - k, k in 0..MaxSaveData
MaxSaveData == 3

----------------------------------------------------------------------------
(* C integer operations.  Operands are mathematical integers; a negative    *)
(* number stands for its two's complement pattern, so ~x is -x-1 and >> is  *)
(* the arithmetic shift (floor division).                                   *)

NoValue == 0 - 1

RECURSIVE BitAnd(_, _)
BitAnd(a, b) ==
    IF a = 0 \/ b = 0 THEN 0
    ELSE IF a = 0 - 1 THEN b
    ELSE IF b = 0 - 1 THEN a
    ELSE (a % 2) * (b % 2) + 2 * BitAnd(a \div 2, b \div 2)

RECURSIVE BitOr(_, _)
BitOr(a, b) ==
    IF a = 0 THEN b
    ELSE IF b = 0 THEN a
    ELSE IF a = 0 - 1 \/ b = 0 - 1 THEN 0 - 1
    ELSE (IF a % 2 = 1 \/ b % 2 = 1 THEN 1 ELSE 0) + 2 * BitOr(a \div 2, b \div 2)

RECURSIVE BitXor(_, _)
BitXor(a, b) ==
    IF a = 0 THEN b
    ELSE IF b = 0 THEN a
    ELSE (IF a % 2 = b % 2 THEN 0 ELSE 1) + 2 * BitXor(a \div 2, b \div 2)

BitNot(a) == 0 - a - 1

Shl(a, n) == a * 2^n

Shr(a, n) == a \div 2^n

\* BIT(x, n) of emu.h as used at lines 107 and 124
BIT(x, n) == (x \div 2^n) % 2

\* conversion of an int to u8 / u16 on assignment or return
ToU8(x) == x % 256

ToU16(x) == x % 65536

----------------------------------------------------------------------------
(* mux_w<N>                                                                 *)

\* a slip that ORs the new nibble in without clearing the slice first
mux_w_value_noclear(N, mux, data) ==
    ToU8(BitOr(mux, Shl(BitXor(data, 15), N * 4)))

\* m_inp_mux = (m_inp_mux & ~(0xf << shift)) | ((data ^ 0xf) << shift);
mux_w_value(N, mux, data) ==
    LET shift == N * 4
    IN  ToU8(BitOr(BitAnd(mux, BitNot(Shl(15, shift))),
                   Shl(BitXor(data, 15), shift)))

\* a slip that hands the display only the nibble just written
mux_w_nibble_only(N, data) ==
    /\ m_inp_mux' = mux_w_value(N, m_inp_mux, data)
    /\ display_mx' = BitAnd(m_inp_mux', Shl(15, N * 4))
    /\ ret' = <<>>
    /\ UNCHANGED <<display_my, dac_level, reset_line, board, inputs, saved, at_save>>

mux_w(N, data) ==
    /\ m_inp_mux' = mux_w_value(N, m_inp_mux, data)
    /\ display_mx' = m_inp_mux'
    /\ ret' = <<>>
    /\ UNCHANGED <<display_my, dac_level, reset_line, board, inputs, saved, at_save>>

----------------------------------------------------------------------------
(* control_w                                                                *)

\* a slip that reads the speaker bit from D3
control_w_level_d3(data) == BIT(data, 3)

\* m_dac->write(BIT(data, 4));
control_w_level(data) == BIT(data, 4)

\* a slip that drops the inversion
control_w_row_noninverted(data) == BitAnd(Shr(data, 2), 3)

\* m_display->write_my(~data >> 2 & 3);
control_w_row(data) == BitAnd(Shr(BitNot(data), 2), 3)

control_w(data) ==
    /\ dac_level' = control_w_level(data)
    /\ display_my' = control_w_row(data)
    /\ UNCHANGED <<m_inp_mux, display_mx, reset_line, board, inputs, ret, saved, at_save>>

----------------------------------------------------------------------------
(* input_r                                                                  *)

RECURSIVE read_buttons(_, _, _, _)
\* for (int i = 0; i < 2; i++) if (m_inp_mux & m_inputs[i]->read()) data |= 0x40 << i;
read_buttons(i, mux, in, data) ==
    IF i >= 2 THEN data
    ELSE read_buttons(i + 1, mux, in,
            IF BitAnd(mux, in[i]) # 0 THEN ToU16(BitOr(data, Shl(64, i))) ELSE data)

RECURSIVE read_chessboard(_, _, _, _)
\* for (int i = 0; i < 8; i++) if (BIT(m_inp_mux, i)) data |= m_board->read_file(i ^ 7) << 8;
read_chessboard(i, mux, b, data) ==
    IF i >= 8 THEN data
    ELSE read_chessboard(i + 1, mux, b,
            IF BIT(mux, i) # 0 THEN ToU16(BitOr(data, Shl(b[BitXor(i, 7)], 8))) ELSE data)

\* the accumulator "data" just before the return statement
input_r_data(mux, b, in) == read_chessboard(0, mux, b, read_buttons(0, mux, in, 0))

\* a slip that reads file i instead of file i ^ 7
input_r_value_unreversed(mux, b, in) ==
    ToU16(BitNot(input_r_data(mux, [f \in 0..7 |-> b[7 - f]], in)))

\* a slip that returns the accumulator without the complement
input_r_value_uncomplemented(mux, b, in) == input_r_data(mux, b, in)

\* return ~data;
input_r_value(mux, b, in) == ToU16(BitNot(input_r_data(mux, b, in)))

\* the observer keeps the previous and the new return value
returned(window, value) ==
    IF window = <<>> THEN <<value>> ELSE <<window[Len(window)], value>>

\* a read that clears the mux latch as a side effect
input_r_clearing ==
    /\ ret' = returned(ret, input_r_value(m_inp_mux, board, inputs))
    /\ m_inp_mux' = 0
    /\ UNCHANGED <<display_mx, display_my, dac_level, reset_line,
                   board, inputs, saved, at_save>>

input_r ==
    /\ ret' = returned(ret, input_r_value(m_inp_mux, board, inputs))
    /\ UNCHANGED <<m_inp_mux, display_mx, display_my, dac_level, reset_line,
                   board, inputs, saved, at_save>>

----------------------------------------------------------------------------
(* reset_button: the New Game button is tied to the MCU reset line          *)

reset_button(newval) ==
    /\ reset_line' = IF newval # 0 THEN "ASSERT_LINE" ELSE "CLEAR_LINE"
    /\ UNCHANGED <<m_inp_mux, display_mx, display_my, dac_level,
                   board, inputs, ret, saved, at_save>>

----------------------------------------------------------------------------
(* Initial state: the object as constructed, no handler called yet          *)

EmptyBoard == [f \in 0..7 |-> 0]

NoKeys == [i \in 0..1 |-> 0]

Init ==
    /\ m_inp_mux = 0
    /\ display_mx = NoValue
    /\ display_my = NoValue
    /\ dac_level = NoValue
    /\ reset_line = "CLEAR_LINE"
    /\ board = EmptyBoard
    /\ inputs = NoKeys
    /\ ret = <<>>
    /\ saved = <<>>
    /\ at_save = <<>>
    /\ op = <<"none", 0, 0>>

----------------------------------------------------------------------------
(* The external readings: button sensors chessboard and the two keypad      *)
(* ports.  They change behind the driver's back.                            *)

\* PORT_START("IN.0"): bits 0x02..0x40 are keys, 0x01 and 0x80 are IPT_UNUSED
IN0_KEYS == 126

\* PORT_START("IN.1"): bits 0x10..0x80 are keys, 0x0f is IPT_UNUSED
IN1_KEYS == 240

\* m_inputs[i]->read() when the switches in "pressed" are closed: an unused
\* active-high bit always reads 0
port_read(i, pressed) == BitAnd(pressed, IF i = 0 THEN IN0_KEYS ELSE IN1_KEYS)

\* closed switches per port; bits that are no key are tried as well
KeyPresses == {<<0, 0>>, <<3, 0>>, <<64, 16>>, <<255, 255>>}

\* file f has exactly the square of rank (f + k) mod 8 pressed
DiagBoard(k) == [f \in 0..7 |-> 2^((f + k) % 8)]

\* read_file(7) = 0x01 and every other file empty
File7Board == [f \in 0..7 |-> IF f = 7 THEN 1 ELSE 0]

\* eight different files with several squares each, sharing ranks
MixedBoard == [f \in 0..7 |-> (37 * (f + 1)) % 256]

Boards == {EmptyBoard, File7Board, MixedBoard} \cup {DiagBoard(k) : k \in 0..MaxShift}

\* the sensorboard reports another occupancy
board_change(b) ==
    /\ b # board
    /\ board' = b
    /\ ret' = <<>>
    /\ UNCHANGED <<m_inp_mux, display_mx, display_my, dac_level, reset_line,
                   inputs, saved, at_save>>

\* keypad buttons are pressed or released
key_change(pressed) ==
    /\ inputs' = [i \in 0..1 |-> port_read(i, pressed[i + 1])]
    /\ inputs' # inputs
    /\ ret' = <<>>
    /\ UNCHANGED <<m_inp_mux, display_mx, display_my, dac_level, reset_line,
                   board, saved, at_save>>

----------------------------------------------------------------------------
(* Write path specification                                                 *)

DataVals == 0..MaxData

\* 0xffe3 and 0xffff: every bit above D4 set, D2..D4 all clear or all set
HighControl == {65507, 65535}

ControlVals == (0..MaxControl) \cup HighControl

MuxWrite == \E N \in {0, 1}, data \in DataVals :
    mux_w(N, data) /\ op' = <<"mux_w", N, data>>

ControlWrite == \E data \in ControlVals :
    control_w(data) /\ op' = <<"control_w", 0, data>>

InputRead == input_r /\ op' = <<"input_r", 0, 0>>

\* PORT_CHANGED_MEMBER fires on a change of the button
ResetChange == \E newval \in {0, 1} :
    /\ (newval # 0) # (reset_line = "ASSERT_LINE")
    /\ reset_button(newval)
    /\ op' = <<"reset_button", 0, newval>>

Next == MuxWrite \/ ControlWrite \/ InputRead \/ ResetChange

Spec == Init /\ [][Next]_vars

----------------------------------------------------------------------------
(* Read path specification: 4-bit nibble writes, one control value (speaker *)
(* on, row 0), and changing board and keypad readings                       *)

ReadControlVals == {28}

MuxWriteNibble == \E N \in {0, 1}, data \in 0..15 :
    mux_w(N, data) /\ UNCHANGED op

ControlWriteRead == \E data \in ReadControlVals :
    control_w(data) /\ UNCHANGED op

InputReadRead == input_r /\ UNCHANGED op

ResetChangeRead == \E newval \in {0, 1} :
    /\ (newval # 0) # (reset_line = "ASSERT_LINE")
    /\ reset_button(newval)
    /\ UNCHANGED op

BoardChange == \E b \in Boards : board_change(b) /\ UNCHANGED op

KeyChange == \E pressed \in KeyPresses : key_change(pressed) /\ UNCHANGED op

NextRead ==
    MuxWriteNibble \/ ControlWriteRead \/ InputReadRead \/ ResetChangeRead
        \/ BoardChange \/ KeyChange

SpecRead == Init /\ [][NextRead]_vars

----------------------------------------------------------------------------
(* Save states.  machine_start registers the driver's items, and the        *)
(* driver's part of a save state holds the registered items with the values *)
(* they have when it is taken (state_save stands for the emulator's save    *)
(* manager, whose code is not in the driver's source; the description's     *)
(* "snapshotting ... as opaque scalar fields" is what it is taken from).    *)
(* What the devices (display, dac, maincpu) put into a save state of their  *)
(* own, and what a load does to them, is decided outside the driver and is  *)
(* not modelled: saved is the driver's part only.                           *)

\* save_item(NAME(m_inp_mux));
machine_start == {"m_inp_mux"}

state_save ==
    /\ saved' = [n \in machine_start |-> m_inp_mux]
    /\ at_save' = <<m_inp_mux, dac_level>>
    /\ UNCHANGED <<m_inp_mux, display_mx, display_my, dac_level, reset_line,
                   board, inputs, ret>>

SaveDataVals == {15 - k : k \in 0..MaxSaveData}

SaveControlVals == {0, 16}

MuxWriteSave == \E N \in {0, 1}, data \in SaveDataVals :
    mux_w(N, data) /\ UNCHANGED op

ControlWriteSave == \E data \in SaveControlVals :
    control_w(data) /\ UNCHANGED op

StateSave == state_save /\ UNCHANGED op

NextSave == MuxWriteSave \/ ControlWriteSave \/ StateSave

SpecSave == Init /\ [][NextSave]_vars

----------------------------------------------------------------------------
(* Properties of the nibble writes and the control write (Spec)             *)

\* the 4-bit slice of an 8-bit value at offset N*4
Slice(mux, N) == (mux \div 16^N) % 16

\* C1: a nibble write mux_w<N>(v) with v in 0..15 leaves the slice at offset
\* N*4 equal to v XOR 0xF (15 - v for a 4-bit v) and leaves the other slice
\* with the value it had before the write.
C1_NibbleWrite ==
    [][(op'[1] = "mux_w" /\ op'[3] \in 0..15) =>
          /\ Slice(m_inp_mux', op'[2]) = 15 - op'[3]
          /\ Slice(m_inp_mux', 1 - op'[2]) = Slice(m_inp_mux, 1 - op'[2])]_vars

\* mux_w<1>(0x9) has acted on a mux whose low slice held 0x5: the high slice
\* is 0x6 and the low slice still 0x5
C1_Witness ==
    /\ op = <<"mux_w", 1, 9>>
    /\ m_inp_mux = 101

\* C2: values outside 4 bits are masked on a nibble write: mux_w<N>(v) leaves
\* the slice at offset N*4 equal to (v AND 0xF) XOR 0xF and does not disturb
\* the other slice, for every v, also one with bits above bit 3 set.
C2_Masked ==
    [][op'[1] = "mux_w" =>
          /\ Slice(m_inp_mux', op'[2]) = 15 - (op'[3] % 16)
          /\ Slice(m_inp_mux', 1 - op'[2]) = Slice(m_inp_mux, 1 - op'[2])]_vars

\* the row the led select bits D3 D2 call for: 00 -> 3, 01 -> 2, 10 -> 1, 11 -> 0
RowTable == <<3, 2, 1, 0>>

\* C6: control_w gives the display the row (~value >> 2) AND 3, which is in
\* 0..3 and follows the table (bit3 bit2) 00 -> 3, 01 -> 2, 10 -> 1, 11 -> 0,
\* whatever the other bits of the 16-bit value are.
C6_RowSelect ==
    op[1] = "control_w" =>
        /\ display_my \in 0..3
        /\ display_my = RowTable[((op[3] \div 4) % 4) + 1]

\* control_w(0xffe3) has acted: every bit set but D2..D4, row 3 is selected
C6_Witness ==
    /\ op = <<"control_w", 0, 65507>>
    /\ display_my = 3

\* C7: the level given to the dac is bit 4 of the most recent control write:
\* every control write sets it to bit 4 of its value, and no nibble write,
\* composite read or reset change alters it.
C7_Buzzer ==
    [][/\ op'[1] = "control_w" =>
             dac_level' = (IF (op'[3] \div 16) % 2 = 1 THEN 1 ELSE 0)
       /\ op'[1] # "control_w" => dac_level' = dac_level]_vars

\* a control write with bit 4 set has driven the level to 1, and a reset
\* change, after nibble writes and a composite read, has left it there
C7_Witness ==
    /\ op[1] = "reset_button"
    /\ dac_level = 1
    /\ display_mx = 165
    /\ ret # <<>>

\* C9: once a nibble write has happened, the column mask last given to the
\* display is the full current m_inp_mux: each nibble write hands over both
\* slices, and no other operation changes m_inp_mux or the column mask.
C9_ColumnMask ==
    /\ [](display_mx # NoValue => display_mx = m_inp_mux)
    /\ [][/\ op'[1] = "mux_w" => display_mx' = m_inp_mux'
          /\ op'[1] # "mux_w" =>
                (m_inp_mux' = m_inp_mux /\ display_mx' = display_mx)]_vars

\* slot 1 was written while slot 0 held 0xa, and a control write has acted
\* since: the display holds the full 0x5a
C9_Witness ==
    /\ op[1] = "control_w"
    /\ m_inp_mux = 90
    /\ display_mx = 90

----------------------------------------------------------------------------
(* Properties of the composite read (SpecRead)                              *)

\* the positions of the bits set in a 16-bit value
Bits(x) == {k \in 0..15 : (x \div 2^k) % 2 = 1}

\* the value the latest composite read returned
LastRet == ret[Len(ret)]

\* C3: when exactly bit i of m_inp_mux is set, the upper byte of the read's
\* accumulator before the complement is read_file(i XOR 7), i.e. the file
\* 7 - i, whatever the board and the keypad report.
C3_BitReversal ==
    \A i \in 0..7 :
        (ret # <<>> /\ m_inp_mux = 2^i) =>
            (65535 - LastRet) \div 256 = board[7 - i]

\* mux bit 2 alone, on the diagonal board: the read returned file 5 (0x20)
C3_Witness ==
    /\ m_inp_mux = 4
    /\ board = DiagBoard(0)
    /\ inputs = NoKeys
    /\ ret # <<>>
    /\ LastRet = 57343

\* C5: the composite read is pure.  A step that returns a value (input_r)
\* changes neither m_inp_mux nor what the display and the dac were given;
\* m_inp_mux changes by a nibble write only; and two reads with no nibble
\* write and no change of the readings between them (control writes and
\* reset changes may occur) return the same value.
C5_PureRead ==
    /\ [](Len(ret) = 2 => ret[1] = ret[2])
    /\ [][/\ (ret' # <<>> /\ ret' # ret) =>
                UNCHANGED <<m_inp_mux, display_mx, display_my, dac_level>>
          /\ m_inp_mux' # m_inp_mux =>
                LET N == IF Slice(m_inp_mux', 0) # Slice(m_inp_mux, 0) THEN 0 ELSE 1
                IN  mux_w(N, 15 - Slice(m_inp_mux', N))]_vars

\* two reads of mux 0x42 with the Pawn and Take Back keys down on the
\* diagonal board returned bit 6 and two files; a control write and a reset
\* change have acted
C5_Witness ==
    /\ Len(ret) = 2
    /\ m_inp_mux = 66
    /\ board = DiagBoard(0)
    /\ inputs[0] = 64
    /\ display_my # NoValue
    /\ reset_line = "ASSERT_LINE"
    /\ ret[2] = 48575

\* the bits of the accumulator the spec calls for: bit 8+r when some selected
\* mux bit i has bit r set in read_file(i XOR 7), bit 6+g when m_inp_mux and
\* keypad group g have a bit in common, and nothing in bits 0..5
ExpectedData ==
    {8 + r : r \in {q \in 0..7 : \E i \in Bits(m_inp_mux) : q \in Bits(board[7 - i])}}
        \cup {6 + g : g \in {h \in 0..1 : Bits(m_inp_mux) \cap Bits(inputs[h]) # {}}}

\* C10: the composite read returns the 16-bit complement of the accumulator
\* described by ExpectedData; with m_inp_mux = 0 it returns 0xFFFF, and with
\* m_inp_mux = 0x0F, read_file(7) = 0x01, every other file and both keypad
\* groups 0 it returns 0xFEFF.
C10_CompositeRead ==
    ret # <<>> =>
        /\ Bits(LastRet) = (0..15) \ ExpectedData
        /\ m_inp_mux = 0 => LastRet = 65535
        /\ (m_inp_mux = 15 /\ board = File7Board /\ inputs = NoKeys) =>
                LastRet = 65279

\* the end-to-end scenario: 0x0 to slot 0 and 0xF to slot 1, then the read
C10_Witness ==
    /\ m_inp_mux = 15
    /\ display_mx = 15
    /\ board = File7Board
    /\ inputs = NoKeys
    /\ ret # <<>>
    /\ LastRet = 65279

\* C4 (group gating with only mux bit 0 set): bit 0 of IN.0 is IPT_UNUSED, so
\* with m_inp_mux = 1 the reading of keypad group 0 never has a bit in
\* common with the mux; the case the law describes does not occur.
GroupGatingCaseAbsent ==
    m_inp_mux = 1 => BitAnd(m_inp_mux, inputs[0]) = 0

\* the same law one bit up: with only mux bit 1 set and the King key (bit 1
\* of IN.0) down, the read reports bit 6 and not bit 7
GroupGatingKing ==
    (m_inp_mux = 2 /\ BitAnd(m_inp_mux, inputs[0]) # 0 /\ ret # <<>>) =>
        (6 \in Bits(65535 - LastRet) /\ 7 \notin Bits(65535 - LastRet))

GroupGatingKingCase ==
    m_inp_mux = 2 /\ BitAnd(m_inp_mux, inputs[0]) # 0 /\ ret # <<>>

----------------------------------------------------------------------------
(* Properties of the save state (SpecSave)                                  *)

====
